---- MODULE Spec2Model ----
(***************************************************************************)
(* Model of the frame-streaming client (python_demo/client.py): the        *)
(* enumerator, the encoding stage (encoder_producer), the bounded queue,    *)
(* the Sender (main), the Listener (server_listener) and the termination   *)
(* handshake, as three cooperative asyncio tasks plus the remote endpoint. *)
(***************************************************************************)
EXTENDS Integers, Sequences, FiniteSets, TLC

\* ---------------------------------------------------------------- bounds
MaxFrames == 3      \* conforming frame files a directory may hold
MaxFPS == 4         \* target rates 1..MaxFPS
MaxQueue == 2       \* queue capacities 1..MaxQueue
MaxInbound == 1     \* messages the remote endpoint may send

\* ------------------------------------------------------ program constants
JPEG_QUALITY == 75
HANDSHAKE_TIMEOUT == 20
WS_TEXT_FRAMES == TRUE

VARIABLES
    FRAME_FORMAT,   \* configured encoding mode
    FPS,            \* configured target rate
    QUEUE_MAXSIZE,  \* configured queue capacity
    dir,            \* IMAGES_DIR: file name -> kind of content
    main_pc,        \* position of main()
    paths,          \* result of list_timestamped_pngs()
    prefill_target,
    stash,          \* prefill stash
    stash_i,        \* number of stash items already sent
    sent,           \* main's counter of stream messages
    last_item,      \* main's last_item
    q_made,         \* whether main has created the asyncio.Queue
    start_taken,    \* whether main has taken its pacing reference start
    q,              \* the asyncio.Queue contents, head first
    puts,           \* history of everything put into the queue
    prod_pc,        \* position of the encoder_producer task
    prod_i,         \* index of the path encoder_producer works on
    prod_item,      \* Encoded Frame waiting for q.put
    ws,             \* connection: "none", "open", "remote_closed", "closed"
    wire,           \* messages transmitted on the connection, in order
    next_id,        \* uuid4 source: number of ids generated
    inbox,          \* inbound messages not yet read by the Listener
    nsentRemote,    \* number of messages the remote has sent
    surfaced,       \* what the Listener printed, in order
    listener_pc,    \* "none", "running", "finished", "cancelled"
    waited          \* time units elapsed in wait_for(listener_task)

\* The pure functions and the recorder are exercised by specifications of
\* their own, over the variables below; the streaming session leaves them
\* untouched and they leave the session untouched.
VARIABLES
    listing,        \* directory entries in the order the filesystem returns them
    enum_result,    \* what list_timestamped_pngs returned for listing
    enum_pc,        \* "ready", "returned"
    b64_file,       \* the file given to b64_raw
    b64_out,        \* what b64_raw returned
    b64_pc,         \* "ready", "returned"
    pace_pc,        \* position of the Sender in its two paced loops
    now,            \* the clock (perf_counter), in ticks
    start,          \* main's start
    pace_sent,      \* main's sent
    stash_left,     \* stash items not yet sent
    drain_left,     \* frames the queue will still deliver before the sentinel
    send_times,     \* the clock at each "stream" transmission, in order
    rec_pc,         \* position of record.main
    rec_fps,        \* record.py's FPS
    dur_halves,     \* record.py's DURATION_SEC, in half seconds
    SHOW_PREVIEW,   \* record.py's SHOW_PREVIEW
    show_preview,   \* main's show_preview
    total_frames,   \* main's total_frames
    rec_i,          \* the loop index i of the next iteration
    saved,          \* main's saved
    reads,          \* calls of cap.read() so far
    cap,            \* the camera: "none", "open", "released"
    releases,       \* calls of cap.release() so far
    user_stopped,   \* the loop was left by the stop key
    windows_destroyed,  \* cv2.destroyAllWindows() was called
    rec_now,        \* the recorder's clock (perf_counter), in ticks
    rec_start,      \* record.main's start
    read_log,       \* per cap.read(): the clock when it began and its ok
    written,        \* calls of cv2.imwrite so far
    shown,          \* calls of cv2.imshow so far
    polls,          \* calls of cv2.waitKey so far
    last_key,       \* the key the last cv2.waitKey returned
    window,         \* the preview window: "none", "created", "failed"
    ENC_WORKERS,    \* configured size of the worker pool
    enc_n,          \* number of paths given to encoder_producer
    enc_cap,        \* maxsize of the queue given to encoder_producer
    enc_pc,         \* position of encoder_producer
    sub_i,          \* index of the next path to submit to the pool
    put_i,          \* index of the next path whose frame is put
    in_flight,      \* jobs submitted to the pool and not yet completed
    submitted,      \* job indices in submission order
    completed,      \* job indices in completion order
    job_ok,         \* outcome of each completed job
    enc_q           \* the queue: indices of frames, 0 for the sentinel

clientVars == <<FRAME_FORMAT, FPS, QUEUE_MAXSIZE, dir, main_pc, paths,
                prefill_target, stash, stash_i, sent, last_item, q_made,
                start_taken, q,
                puts, prod_pc, prod_i, prod_item, ws, wire, next_id, inbox,
                nsentRemote, surfaced, listener_pc, waited>>
enumVars == <<listing, enum_result, enum_pc>>
b64Vars == <<b64_file, b64_out, b64_pc>>
paceVars == <<pace_pc, now, start, pace_sent, stash_left, drain_left, send_times>>
recVars == <<rec_pc, rec_fps, dur_halves, SHOW_PREVIEW, show_preview,
             total_frames, rec_i, saved, reads, cap, releases, user_stopped,
             windows_destroyed, rec_now, rec_start, read_log, written, shown,
             polls, last_key, window>>
encVars == <<ENC_WORKERS, enc_n, enc_cap, enc_pc, sub_i, put_i, in_flight,
             submitted, completed, job_ok, enc_q>>
others == <<enumVars, b64Vars, paceVars, recVars, encVars>>
vars == <<clientVars, others>>

\* ------------------------------------------------------- files & encoding
Formats == {"raw", "jpeg", "bmp"}
\* What a file holds: whether it can be read, whether its bytes decode as
\* an image, and the bytes.
Img == [readable |-> TRUE, image |-> TRUE, bytes |-> <<137, 80, 78, 71>>]
Garbage == [readable |-> TRUE, image |-> FALSE, bytes |-> <<0, 255>>]
Unreadable == [readable |-> FALSE, image |-> FALSE, bytes |-> <<>>]
Contents == {Img, Garbage, Unreadable}

\* A directory entry name: <secs>.png when numeric, a non-numeric stem
\* (e.g. notes.png) otherwise.
\* secs and frac are the digits before and after the dot of the stem; frac
\* is NoFrac when the stem has no fraction part.
NoFrac == -1
FrameNames == [secs : 1..MaxFrames, frac : {NoFrac}, numeric : {TRUE}, ext : {"png"}]
OtherNames == {[secs |-> 0, frac |-> NoFrac, numeric |-> FALSE, ext |-> "png"]}
Directories ==
    { d \in UNION { [S -> Contents] : S \in SUBSET (FrameNames \cup OtherNames) } :
        \A n \in DOMAIN d : ~n.numeric => d[n] = Img }

None == [kind |-> "None"]

\* a filter that keeps every .png entry
AnyPngMatch(name) == name.ext = "png"

\* line 35: _TS_PNG = ^\d+(?:\.\d+)?\.png$
TsPngMatch(name) == name.ext = "png" /\ name.numeric

\* line 38: Path(IMAGES_DIR).glob("*.png"), in the order the filesystem
\* returns the entries
GlobPng(entries) == SelectSeq(entries, LAMBDA n : n.ext = "png")

\* the numeric value of a stem, in tenths
StemValue(name) == name.secs * 10 + (IF name.frac = NoFrac THEN 0 ELSE name.frac)

RECURSIVE NumDigits(_)
NumDigits(v) == IF v < 10 THEN 1 ELSE 1 + NumDigits(v \div 10)

RECURSIVE Pow10(_)
Pow10(k) == IF k = 0 THEN 1 ELSE 10 * Pow10(k - 1)

\* line 39: float(...) keeps a bounded number of significant digits (53
\* bits, 15 to 17 decimal digits, in the program; FloatDigits decimal
\* digits here, scaled down with the stems) and rounds the rest away
FloatDigits == 2
FloatOf(v) ==
    IF NumDigits(v) <= FloatDigits THEN v
    ELSE LET u == Pow10(NumDigits(v) - FloatDigits)
         IN ((v + u \div 2) \div u) * u

\* line 39: the sort key
SortKey(name) == IF name.numeric THEN FloatOf(StemValue(name)) ELSE 0

\* line 39: list.sort is stable: entries with equal keys keep their order
RECURSIVE InsertByKey(_, _)
InsertByKey(sorted, x) ==
    IF sorted = <<>> THEN <<x>>
    ELSE IF SortKey(Head(sorted)) <= SortKey(x)
         THEN <<Head(sorted)>> \o InsertByKey(Tail(sorted), x)
         ELSE <<x>> \o sorted

RECURSIVE SortedByKey(_)
SortedByKey(entries) ==
    IF entries = <<>> THEN <<>>
    ELSE InsertByKey(SortedByKey(SubSeq(entries, 1, Len(entries) - 1)),
                     entries[Len(entries)])

list_timestamped_pngs(entries) == SortedByKey(SelectSeq(GlobPng(entries), TsPngMatch))

\* the orders in which the filesystem may return the entries of a set
Orderings(S) ==
    { l \in [1..Cardinality(S) -> S] : \A i, j \in DOMAIN l : l[i] = l[j] => i = j }

RECURSIVE SomeOrdering(_)
SomeOrdering(S) ==
    IF S = {} THEN <<>>
    ELSE LET x == CHOOSE y \in S : TRUE IN <<x>> \o SomeOrdering(S \ {x})

\* line 70: ts_str = p.stem
Stem(name) == <<name.secs, name.frac>>

\* base64.b64encode (RFC 4648): three bytes become four characters of the
\* alphabet, a last group of one or two bytes is padded with "="
B64Alphabet ==
    <<"A", "B", "C", "D", "E", "F", "G", "H", "I", "J", "K", "L", "M", "N", "O", "P",
      "Q", "R", "S", "T", "U", "V", "W", "X", "Y", "Z", "a", "b", "c", "d", "e", "f",
      "g", "h", "i", "j", "k", "l", "m", "n", "o", "p", "q", "r", "s", "t", "u", "v",
      "w", "x", "y", "z", "0", "1", "2", "3", "4", "5", "6", "7", "8", "9", "+", "/">>

B64Char(sextet) == B64Alphabet[sextet + 1]

RECURSIVE b64encode(_)
b64encode(bytes) ==
    IF Len(bytes) = 0 THEN <<>>
    ELSE IF Len(bytes) = 1 THEN
        <<B64Char(bytes[1] \div 4), B64Char((bytes[1] % 4) * 16), "=", "=">>
    ELSE IF Len(bytes) = 2 THEN
        <<B64Char(bytes[1] \div 4),
          B64Char((bytes[1] % 4) * 16 + bytes[2] \div 16),
          B64Char((bytes[2] % 16) * 4), "=">>
    ELSE
        <<B64Char(bytes[1] \div 4),
          B64Char((bytes[1] % 4) * 16 + bytes[2] \div 16),
          B64Char((bytes[2] % 16) * 4 + bytes[3] \div 64),
          B64Char(bytes[3] % 64)>> \o b64encode(SubSeq(bytes, 4, Len(bytes)))

\* an encoder that strips the "=" padding
b64_raw_unpadded(file) ==
    IF ~file.readable THEN [ok |-> FALSE, val |-> <<>>]
    ELSE [ok |-> TRUE,
          val |-> SelectSeq(b64encode(file.bytes), LAMBDA c : c # "=")]

\* lines 49-51: np.fromfile raises for a file that cannot be read
b64_raw(file) ==
    IF ~file.readable THEN [ok |-> FALSE, val |-> <<>>]
    ELSE [ok |-> TRUE, val |-> b64encode(file.bytes)]

\* cv2.imdecode / cv2.imencode: the recompressed image, kept symbolic
JpegOf(bytes, quality) == [jpeg_of |-> bytes, quality |-> quality]

\* lines 53-60
b64_jpeg(file, quality) ==
    IF ~file.readable \/ ~file.image THEN [ok |-> FALSE, val |-> <<>>]
    ELSE [ok |-> TRUE, val |-> <<"b64", JpegOf(file.bytes, quality)>>]

Encode(fmt, content) ==
    IF fmt = "raw" THEN b64_raw(content) ELSE b64_jpeg(content, JPEG_QUALITY)

EncodedFrame(name, b64) ==
    [kind |-> "frame", name |-> name, ts |-> Stem(name), b64 |-> b64]

\* --------------------------------------------------------------- payloads
build_payload(datapt_id, state, timestamp, frame_b64) ==
    [datapt_id |-> datapt_id, state |-> state, advanced |-> TRUE,
     timestamp |-> timestamp, frame_data |-> frame_b64]

dump_payload(obj) ==
    [framing |-> IF WS_TEXT_FRAMES THEN "text" ELSE "binary", body |-> obj]

\* ------------------------------------------------------------- main steps
AnyFormat(fmt) == TRUE

ValidFormat(fmt) == fmt \in {"raw", "jpeg"}

NeverNoPaths(ps) == FALSE

NoPaths(ps) == ps = <<>>

Max(a, b) == IF a >= b THEN a ELSE b

\* a prefill of a whole second of frames
PrefillWholeSecond(fps) == Max(1, fps)

\* main, line 157: prefill_target = max(1, int(FPS * 0.5))
PrefillTarget(fps) == Max(1, fps \div 2)

LifoGetIndex(queue) == Len(queue)

\* asyncio.Queue is FIFO: get() removes the oldest item
QueueGetIndex(queue) == 1

RemoveAt(queue, k) == SubSeq(queue, 1, k - 1) \o SubSeq(queue, k + 1, Len(queue))

FirstLastItem(last, it) == IF last = [kind |-> "None"] THEN it ELSE last

\* main, line 192: last_item = it
NextLastItem(last, it) == it

\* a wait whose timeout is due at once
AlwaysTimedOut(w) == TRUE

\* main, line 211: the timeout of wait_for has elapsed
TimedOut(w) == w >= HANDSHAKE_TIMEOUT

EnumIdle == listing = <<>> /\ enum_result = <<>> /\ enum_pc = "idle"

B64Idle == b64_file = Unreadable /\ b64_out = <<>> /\ b64_pc = "idle"

PaceIdle ==
    /\ pace_pc = "idle"
    /\ now = 0
    /\ start = 0
    /\ pace_sent = 0
    /\ stash_left = 0
    /\ drain_left = 0
    /\ send_times = <<>>

\* record.main not yet entered
RecStart ==
    /\ show_preview = FALSE
    /\ total_frames = 0
    /\ rec_i = 0
    /\ saved = 0
    /\ reads = 0
    /\ cap = "none"
    /\ releases = 0
    /\ user_stopped = FALSE
    /\ windows_destroyed = FALSE
    /\ rec_now = 0
    /\ rec_start = 0
    /\ read_log = <<>>
    /\ written = 0
    /\ shown = 0
    /\ polls = 0
    /\ last_key = "none"
    /\ window = "none"

RecIdle ==
    /\ rec_pc = "idle"
    /\ rec_fps = 1
    /\ dur_halves = 0
    /\ SHOW_PREVIEW = FALSE
    /\ RecStart

\* encoder_producer not yet started
EncStart ==
    /\ sub_i = 1
    /\ put_i = 1
    /\ in_flight = {}
    /\ submitted = <<>>
    /\ completed = <<>>
    /\ job_ok = <<>>
    /\ enc_q = <<>>

EncIdle ==
    /\ ENC_WORKERS = 1
    /\ enc_n = 0
    /\ enc_cap = 1
    /\ enc_pc = "idle"
    /\ EncStart

OthersIdle == EnumIdle /\ B64Idle /\ PaceIdle /\ RecIdle /\ EncIdle

\* main() not yet entered
ClientStart ==
    /\ main_pc = "start"
    /\ paths = <<>>
    /\ prefill_target = 0
    /\ stash = <<>>
    /\ stash_i = 0
    /\ sent = 0
    /\ last_item = None
    /\ q_made = FALSE
    /\ start_taken = FALSE
    /\ q = <<>>
    /\ puts = <<>>
    /\ prod_pc = "none"
    /\ prod_i = 0
    /\ prod_item = None
    /\ ws = "none"
    /\ wire = <<>>
    /\ next_id = 0
    /\ inbox = <<>>
    /\ nsentRemote = 0
    /\ surfaced = <<>>
    /\ listener_pc = "none"
    /\ waited = 0

\* the client at rest, for the specifications that do not run it
ClientIdle ==
    /\ FRAME_FORMAT = "jpeg"
    /\ FPS = 1
    /\ QUEUE_MAXSIZE = 1
    /\ dir = <<>>
    /\ ClientStart

Init ==
    /\ OthersIdle
    /\ FRAME_FORMAT \in Formats
    /\ FPS \in 1..MaxFPS
    /\ QUEUE_MAXSIZE \in 1..MaxQueue
    /\ dir \in Directories
    /\ ClientStart

config == <<FRAME_FORMAT, FPS, QUEUE_MAXSIZE, dir>>
senderVars == <<paths, prefill_target, stash, stash_i, sent, last_item>>
prodVars == <<puts, prod_pc, prod_i, prod_item>>
remoteVars == <<inbox, nsentRemote, surfaced>>

\* main, line 135: the configuration check
CheckFormat ==
    /\ main_pc = "start"
    /\ main_pc' = IF ValidFormat(FRAME_FORMAT) THEN "list" ELSE "raised_config"
    /\ UNCHANGED <<others, config, q_made, start_taken, senderVars, q, prodVars, ws, wire, next_id,
                   remoteVars, listener_pc, waited>>

\* main, lines 138-141: enumerate, return when nothing to stream
Enumerate ==
    /\ main_pc = "list"
    /\ \E entries \in Orderings(DOMAIN dir) :
         paths' = list_timestamped_pngs(entries)
    /\ main_pc' = IF NoPaths(paths') THEN "returned" ELSE "connect"
    /\ UNCHANGED <<others, config, q_made, start_taken, prefill_target, stash, stash_i, sent, last_item, q,
                   prodVars, ws, wire, next_id, remoteVars, listener_pc, waited>>

\* a session that creates no Listener task
ConnectNoListener ==
    /\ main_pc = "connect"
    /\ ws' = "open"
    /\ q_made' = TRUE
    /\ start_taken' = FALSE
    /\ q' = <<>>
    /\ prod_pc' = "encode"
    /\ prod_i' = 1
    /\ prefill_target' = PrefillTarget(FPS)
    /\ stash' = <<>>
    /\ main_pc' = "prefill"
    /\ UNCHANGED <<others, config, paths, stash_i, sent, last_item, puts, prod_item,
                   wire, next_id, remoteVars, listener_pc, waited>>

\* main, lines 149-158: connection established, both tasks created
Connect ==
    /\ main_pc = "connect"
    /\ ws' = "open"
    /\ listener_pc' = "running"
    /\ q_made' = TRUE
    /\ start_taken' = FALSE
    /\ q' = <<>>
    /\ prod_pc' = "encode"
    /\ prod_i' = 1
    /\ prefill_target' = PrefillTarget(FPS)
    /\ stash' = <<>>
    /\ main_pc' = "prefill"
    /\ UNCHANGED <<others, config, paths, stash_i, sent, last_item, puts, prod_item,
                   wire, next_id, remoteVars, waited>>

\* a variant that creates the queue and both tasks before connecting
ConnectFailAfterSetup ==
    /\ main_pc = "connect"
    /\ main_pc' = "raised_connect"
    /\ q_made' = TRUE
    /\ start_taken' = FALSE
    /\ listener_pc' = "cancelled"
    /\ prod_pc' = "cancelled"
    /\ UNCHANGED <<others, config, senderVars, q, puts, prod_i, prod_item, ws, wire,
                   next_id, remoteVars, waited>>

\* main, line 149: websockets.connect raises
ConnectFail ==
    /\ main_pc = "connect"
    /\ main_pc' = "raised_connect"
    /\ UNCHANGED <<others, config, q_made, start_taken, senderVars, q, prodVars, ws, wire, next_id,
                   remoteVars, listener_pc, waited>>

\* what leaving main() does: the connection block closes the connection and
\* asyncio.run cancels the tasks that are still pending
CancelledListener == IF listener_pc = "running" THEN "cancelled" ELSE listener_pc
CancelledProducer ==
    IF prod_pc \in {"encode", "put", "put_sentinel"} THEN "cancelled" ELSE prod_pc

\* an identifier derived from the frame instead of the transmission
PerFrameId(item, n) == item.ts[1]

\* send_item, line 170: str(uuid.uuid4()) is evaluated in every call; the
\* n-th identifier generated differs from the n - 1 before it
DataptId(item, n) == n

\* send_item, lines 168-171, on an open connection
Transmit(item, state) ==
    /\ next_id' = next_id + 1
    /\ wire' = Append(wire, dump_payload(
                   build_payload(DataptId(item, next_id + 1), state, item.ts,
                                 item.b64)))

\* send_item on a connection the remote has closed: ws.send raises
\* ConnectionClosed, main() is left through the connection block
SendRaises ==
    /\ next_id' = next_id + 1
    /\ main_pc' = "raised_closed"
    /\ ws' = "closed"
    /\ listener_pc' = CancelledListener
    /\ prod_pc' = CancelledProducer
    /\ UNCHANGED <<others, config, q_made, start_taken, senderVars, q, puts, prod_i, prod_item, wire,
                   remoteVars, waited>>

\* main, lines 159-166: one q.get() of the prefill loop
Prefill ==
    /\ main_pc = "prefill"
    /\ q # <<>>
    /\ LET k == QueueGetIndex(q)
           item == q[k]
           newStash == IF item = None THEN stash ELSE Append(stash, item)
           over == item = None \/ Len(newStash) >= prefill_target
       IN /\ q' = RemoveAt(q, k)
          /\ stash' = newStash
          /\ main_pc' = IF ~over THEN "prefill"
                        ELSE IF newStash = <<>> THEN "drain" ELSE "send_stash"
          /\ start_taken' = over
          /\ sent' = 0
          /\ stash_i' = 0
          /\ last_item' = None
    /\ UNCHANGED <<others, config, q_made, paths, prefill_target, prodVars, ws, wire, next_id,
                   remoteVars, listener_pc, waited>>

\* main, lines 174-187: one iteration of the loop over the stash
SendStash ==
    /\ main_pc = "send_stash"
    /\ stash_i < Len(stash)
    /\ IF ws = "open"
       THEN /\ Transmit(stash[stash_i + 1], "stream")
            /\ sent' = sent + 1
            /\ stash_i' = stash_i + 1
            /\ last_item' = None
            /\ main_pc' = IF stash_i' = Len(stash) THEN "drain" ELSE "send_stash"
            /\ UNCHANGED <<others, config, q_made, start_taken, paths, prefill_target, stash, q, prodVars, ws,
                           remoteVars, listener_pc, waited>>
       ELSE SendRaises

\* a loop that marks every message it sends as the final one
EndInLoop == "end"

\* main, line 193: send_item(it, "stream") inside the drain loop
DrainState == "stream"

\* main, lines 188-203: one iteration of the drain loop
Drain ==
    /\ main_pc = "drain"
    /\ q # <<>>
    /\ LET k == QueueGetIndex(q)
           it == q[k]
       IN IF it = None
          THEN /\ q' = RemoveAt(q, k)
               /\ main_pc' = "end"
               /\ UNCHANGED <<others, config, q_made, start_taken, senderVars, prodVars, ws, wire, next_id,
                              remoteVars, listener_pc, waited>>
          ELSE IF ws = "open"
          THEN /\ q' = RemoveAt(q, k)
               /\ last_item' = NextLastItem(last_item, it)
               /\ Transmit(it, DrainState)
               /\ sent' = sent + 1
               /\ UNCHANGED <<others, config, q_made, start_taken, paths, prefill_target, stash, stash_i,
                              main_pc, prodVars, ws, remoteVars, listener_pc,
                              waited>>
          ELSE /\ q' = RemoveAt(q, k)
               /\ next_id' = next_id + 1
               /\ last_item' = NextLastItem(last_item, it)
               /\ main_pc' = "raised_closed"
               /\ ws' = "closed"
               /\ listener_pc' = CancelledListener
               /\ prod_pc' = CancelledProducer
               /\ UNCHANGED <<others, config, q_made, start_taken, paths, prefill_target, stash, stash_i,
                              sent, puts, prod_i, prod_item, wire, remoteVars,
                              waited>>

\* main, lines 205-208: the final "end" message
SendEnd ==
    /\ main_pc = "end"
    /\ IF last_item = None
       THEN /\ main_pc' = "wait"
            /\ UNCHANGED <<others, config, q_made, start_taken, senderVars, q, prodVars, ws, wire, next_id,
                           remoteVars, listener_pc, waited>>
       ELSE IF ws = "open"
       THEN /\ Transmit(last_item, "end")
            /\ main_pc' = "wait"
            /\ UNCHANGED <<others, config, q_made, start_taken, senderVars, q, prodVars, ws, remoteVars,
                           listener_pc, waited>>
       ELSE SendRaises

\* main, line 211: wait_for returns because the Listener task has finished
WaitReturn ==
    /\ main_pc = "wait"
    /\ listener_pc = "finished"
    /\ main_pc' = "done"
    /\ UNCHANGED <<others, config, q_made, start_taken, senderVars, q, prodVars, ws, wire, next_id,
                   remoteVars, listener_pc, waited>>

\* the Listener task can take a step: a message is buffered or the
\* connection has been closed
ListenerReady ==
    listener_pc = "running" /\ (inbox # <<>> \/ ws = "remote_closed")

\* one time unit passes while main waits on the Listener; the event loop
\* runs a task that is ready before it sleeps until the next timer, so no
\* time unit passes while the Listener is ready
Tick ==
    /\ main_pc = "wait"
    /\ listener_pc = "running"
    /\ ~ListenerReady
    /\ ~TimedOut(waited)
    /\ waited' = waited + 1
    /\ UNCHANGED <<others, config, q_made, start_taken, main_pc, senderVars, q, prodVars, ws, wire, next_id,
                   remoteVars, listener_pc>>

\* a timeout that gives up the wait and leaves the Listener running
TimeoutNoCancel ==
    /\ main_pc = "wait"
    /\ listener_pc = "running"
    /\ TimedOut(waited)
    /\ main_pc' = "done"
    /\ UNCHANGED <<others, config, q_made, start_taken, senderVars, q, prodVars, ws, wire, next_id,
                   remoteVars, listener_pc, waited>>

\* a wait on the Listener with no timeout: only its completion ends it
WaitUnbounded ==
    /\ main_pc = "wait"
    /\ listener_pc = "finished"
    /\ main_pc' = "done"
    /\ UNCHANGED <<others, config, q_made, start_taken, senderVars, q, prodVars, ws, wire, next_id,
                   remoteVars, listener_pc, waited>>

\* main, lines 211-215: the timeout fires, the Listener is cancelled and
\* its cancellation awaited
Timeout ==
    /\ main_pc = "wait"
    /\ listener_pc = "running"
    /\ TimedOut(waited)
    /\ listener_pc' = "cancelled"
    /\ main_pc' = "done"
    /\ UNCHANGED <<others, config, q_made, start_taken, senderVars, q, prodVars, ws, wire, next_id,
                   remoteVars, waited>>

\* main, line 216 and the end of the connection block
Exit ==
    /\ main_pc = "done"
    /\ main_pc' = "exited"
    /\ ws' = "closed"
    /\ prod_pc' = CancelledProducer
    /\ UNCHANGED <<others, config, q_made, start_taken, senderVars, q, puts, prod_i, prod_item, wire,
                   next_id, remoteVars, listener_pc, waited>>

\* ------------------------------------------------------- encoder_producer
\* lines 65-70: one run_in_executor call; an exception of the encode
\* function is raised in the task and ends it
ProducerEncode ==
    /\ prod_pc = "encode"
    /\ LET p == paths[prod_i]
           r == Encode(FRAME_FORMAT, dir[p])
       IN IF r.ok
          THEN /\ prod_item' = EncodedFrame(p, r.val)
               /\ prod_pc' = "put"
          ELSE /\ prod_item' = prod_item
               /\ prod_pc' = "aborted"
    /\ UNCHANGED <<others, config, q_made, start_taken, main_pc, senderVars, q, puts, prod_i, ws, wire,
                   next_id, remoteVars, listener_pc, waited>>

\* a queue that accepts every put
NeverFull(queue, maxsize) == FALSE

\* a queue that takes twice its maxsize
FullAtTwice(queue, maxsize) == Len(queue) >= 2 * maxsize

\* asyncio.Queue(maxsize=QUEUE_MAXSIZE), line 153: full() of a queue of
\* positive maxsize; a maxsize <= 0 makes the queue unbounded
QueueFull(queue, maxsize) == maxsize > 0 /\ Len(queue) >= maxsize

\* line 71: q.put of the Encoded Frame, suspended while the queue is full
ProducerPut ==
    /\ prod_pc = "put"
    /\ ~QueueFull(q, QUEUE_MAXSIZE)
    /\ q' = Append(q, prod_item)
    /\ puts' = Append(puts, prod_item)
    /\ prod_item' = None
    /\ prod_i' = prod_i + 1
    /\ prod_pc' = IF prod_i = Len(paths) THEN "put_sentinel" ELSE "encode"
    /\ UNCHANGED <<others, config, q_made, start_taken, main_pc, senderVars, ws, wire, next_id, remoteVars,
                   listener_pc, waited>>

\* line 72: q.put(None)
ProducerSentinel ==
    /\ prod_pc = "put_sentinel"
    /\ ~QueueFull(q, QUEUE_MAXSIZE)
    /\ q' = Append(q, None)
    /\ puts' = Append(puts, None)
    /\ prod_pc' = "finished"
    /\ UNCHANGED <<others, config, q_made, start_taken, main_pc, senderVars, prod_i, prod_item, ws, wire,
                   next_id, remoteVars, listener_pc, waited>>

\* -------------------------------------------------------- server_listener
InboundKinds == {[type |-> "text", json |-> TRUE], [type |-> "bytes", json |-> FALSE]}

\* lines 99-106 and 112-129: the line printed for one inbound message
Surface(msg) ==
    IF msg.json THEN [prefix |-> "<< ", body |-> msg.n]
    ELSE IF msg.type = "bytes" THEN [prefix |-> "<< (bytes) ", body |-> msg.n]
    ELSE [prefix |-> "<< ", body |-> msg.n]

\* a Listener that gives up at a message it cannot decode
StopOnUndecodable(msg) == IF msg.json THEN "running" ELSE "finished"

\* lines 116-120 and 125-129: both outcomes of orjson.loads end in a print
\* and the next iteration of async for
AfterSurface(msg) == "running"

\* a Listener that answers every inbound message on the connection
ListenerRecvAndReply ==
    /\ listener_pc = "running"
    /\ inbox # <<>>
    /\ surfaced' = Append(surfaced, Surface(Head(inbox)))
    /\ inbox' = Tail(inbox)
    /\ wire' = Append(wire, dump_payload(build_payload(0, "ack", <<0, NoFrac>>, <<>>)))
    /\ UNCHANGED <<others, config, q_made, start_taken, main_pc, senderVars, q, prodVars, ws, next_id,
                   nsentRemote, listener_pc, waited>>

\* lines 111-129: one iteration of async for
ListenerRecv ==
    /\ listener_pc = "running"
    /\ inbox # <<>>
    /\ surfaced' = Append(surfaced, Surface(Head(inbox)))
    /\ inbox' = Tail(inbox)
    /\ listener_pc' = AfterSurface(Head(inbox))
    /\ UNCHANGED <<others, config, q_made, start_taken, main_pc, senderVars, q, prodVars, ws, wire, next_id,
                   nsentRemote, waited>>

\* a Listener that does not notice the closed connection
ListenerIgnoresClose ==
    /\ listener_pc = "running"
    /\ inbox = <<>>
    /\ ws = "remote_closed"
    /\ UNCHANGED vars

\* lines 130-131: the iteration ends when the connection is closed
ListenerClosed ==
    /\ listener_pc = "running"
    /\ inbox = <<>>
    /\ ws = "remote_closed"
    /\ listener_pc' = "finished"
    /\ UNCHANGED <<others, config, q_made, start_taken, main_pc, senderVars, q, prodVars, ws, wire, next_id,
                   remoteVars, waited>>

\* -------------------------------------------------------- remote endpoint
RemoteSend ==
    /\ ws = "open"
    /\ nsentRemote < MaxInbound
    /\ \E k \in InboundKinds :
         inbox' = Append(inbox, [type |-> k.type, json |-> k.json,
                                 n |-> nsentRemote + 1])
    /\ nsentRemote' = nsentRemote + 1
    /\ UNCHANGED <<others, config, q_made, start_taken, main_pc, senderVars, q, prodVars, ws, wire, next_id,
                   surfaced, listener_pc, waited>>

RemoteClose ==
    /\ ws = "open"
    /\ ws' = "remote_closed"
    /\ UNCHANGED <<others, config, q_made, start_taken, main_pc, senderVars, q, prodVars, wire, next_id,
                   remoteVars, listener_pc, waited>>

Next ==
    \/ CheckFormat
    \/ Enumerate
    \/ Connect
    \/ ConnectFail
    \/ Prefill
    \/ SendStash
    \/ Drain
    \/ SendEnd
    \/ WaitReturn
    \/ Tick
    \/ Timeout
    \/ Exit
    \/ ProducerEncode
    \/ ProducerPut
    \/ ProducerSentinel
    \/ ListenerRecv
    \/ ListenerClosed
    \/ RemoteSend
    \/ RemoteClose

Spec == Init /\ [][Next]_vars

\* The event loop runs every task that can run and time passes; the remote
\* endpoint is under no obligation.
Fairness ==
    /\ WF_vars(CheckFormat) /\ WF_vars(Enumerate)
    /\ WF_vars(Connect \/ ConnectFail)
    /\ WF_vars(Prefill) /\ WF_vars(SendStash) /\ WF_vars(Drain)
    /\ WF_vars(SendEnd) /\ WF_vars(WaitReturn) /\ WF_vars(Tick)
    /\ WF_vars(Timeout) /\ WF_vars(Exit)
    /\ WF_vars(ProducerEncode) /\ WF_vars(ProducerPut)
    /\ WF_vars(ProducerSentinel)
    /\ WF_vars(ListenerRecv) /\ WF_vars(ListenerClosed)

FairSpec == Spec /\ Fairness

TypeOK ==
    /\ main_pc \in {"start", "list", "connect", "prefill", "send_stash",
                    "drain", "end", "wait", "done", "exited", "returned",
                    "raised_config", "raised_connect", "raised_closed"}
    /\ prod_pc \in {"none", "encode", "put", "put_sentinel", "finished",
                    "aborted", "cancelled"}
    /\ listener_pc \in {"none", "running", "finished", "cancelled"}
    /\ ws \in {"none", "open", "remote_closed", "closed"}
    /\ Len(q) <= QUEUE_MAXSIZE
    /\ waited \in 0..HANDSHAKE_TIMEOUT

\* ------------------------------------------------- the Listener's session
\* A session over a short directory with a remote endpoint that sends
\* several messages of every kind.
MaxArrivals == 3    \* inbound messages per session
AllInboundKinds == [type : {"text", "bytes"}, json : BOOLEAN]
ListenDirs ==
    { d \in Directories :
        /\ DOMAIN d # {}
        /\ \A n \in DOMAIN d : n.numeric /\ n.secs <= 2 /\ d[n] = Img }

ListenInit ==
    /\ OthersIdle
    /\ FRAME_FORMAT = "raw"
    /\ FPS = 1
    /\ QUEUE_MAXSIZE = 1
    /\ dir \in ListenDirs
    /\ ClientStart

RemoteSendAny ==
    /\ ws = "open"
    /\ nsentRemote < MaxArrivals
    /\ \E k \in AllInboundKinds :
         inbox' = Append(inbox, [type |-> k.type, json |-> k.json,
                                 n |-> nsentRemote + 1])
    /\ nsentRemote' = nsentRemote + 1
    /\ UNCHANGED <<others, config, q_made, start_taken, main_pc, senderVars, q, prodVars, ws, wire, next_id,
                   surfaced, listener_pc, waited>>

ListenNext ==
    \/ CheckFormat
    \/ Enumerate
    \/ Connect
    \/ ConnectFail
    \/ Prefill
    \/ SendStash
    \/ Drain
    \/ SendEnd
    \/ WaitReturn
    \/ Tick
    \/ Timeout
    \/ Exit
    \/ ProducerEncode
    \/ ProducerPut
    \/ ProducerSentinel
    \/ ListenerRecv
    \/ ListenerClosed
    \/ RemoteSendAny
    \/ RemoteClose

ListenSpec == ListenInit /\ [][ListenNext]_vars
ListenFairSpec == ListenSpec /\ Fairness

\* ------------------------------------------- sessions with longer sources
\* Sessions whose source holds more frames than the queue, the stash and
\* the producer's hand can hold together.
MaxBackFrames == 4  \* sources of 1..MaxBackFrames frames
BackDirs ==
    { [n \in [secs : 1..k, frac : {NoFrac}, numeric : {TRUE}, ext : {"png"}] |-> Img] :
        k \in 1..MaxBackFrames }

BackInit ==
    /\ OthersIdle
    /\ FRAME_FORMAT = "raw"
    /\ FPS \in {1, MaxFPS}
    /\ QUEUE_MAXSIZE \in 1..MaxQueue
    /\ dir \in BackDirs
    /\ ClientStart

BackSpec == BackInit /\ [][Next]_vars

\* ------------------------------------------------- the Enumerator alone
MaxListing == 3     \* entries a directory listing may hold
EnumSecs == {1, 2, 10}
EnumFracs == {NoFrac, 1, 2}
EnumNames ==
    [secs : EnumSecs, frac : EnumFracs, numeric : {TRUE}, ext : {"png", "jpg"}]
        \cup OtherNames

EnumInit ==
    /\ ClientIdle
    /\ B64Idle
    /\ PaceIdle
    /\ RecIdle
    /\ EncIdle
    /\ \E S \in SUBSET EnumNames :
         /\ Cardinality(S) <= MaxListing
         /\ listing \in Orderings(S)
    /\ enum_result = <<>>
    /\ enum_pc = "ready"

\* lines 37-40: one call of list_timestamped_pngs
EnumCall ==
    /\ enum_pc = "ready"
    /\ enum_result' = list_timestamped_pngs(listing)
    /\ enum_pc' = "returned"
    /\ UNCHANGED <<clientVars, listing, b64Vars, paceVars, recVars, encVars>>

EnumNext == EnumCall

EnumSpec == EnumInit /\ [][EnumNext]_vars

\* ------------------------------------------------------- b64_raw alone
MaxBytes == 4       \* length of a file in bytes
ByteValues == {0, 1, 3, 15, 16, 63, 64, 127, 128, 192, 240, 252, 255}

B64Init ==
    /\ ClientIdle
    /\ EnumIdle
    /\ PaceIdle
    /\ RecIdle
    /\ EncIdle
    /\ \E k \in 0..MaxBytes, img \in BOOLEAN :
         b64_file \in [readable : {TRUE}, image : {img}, bytes : [1..k -> ByteValues]]
    /\ b64_out = <<>>
    /\ b64_pc = "ready"

\* lines 49-51: one call of b64_raw
B64Call ==
    /\ b64_pc = "ready"
    /\ b64_out' = b64_raw(b64_file)
    /\ b64_pc' = "returned"
    /\ UNCHANGED <<clientVars, enumVars, b64_file, paceVars, recVars, encVars>>

B64Next == B64Call

B64Spec == B64Init /\ [][B64Next]_vars

\* ------------------------------------------- the Sender's pacing alone
\* The two paced loops of main (lines 165-203) against a clock. Time is
\* counted in ticks of 1/TicksPerSecond second; start + sent/FPS is compared
\* with the clock after multiplying both by FPS, so no rounding is involved.
TicksPerSecond == 4 \* clock resolution
MaxLate == 2        \* ticks a send, a q.get() or a wake-up may take
MaxPaceFrames == 2  \* frames sent from the stash, and frames drained

\* a fixed sleep of one period after every send: now + 1/FPS, times FPS
FixedSleepTarget(st, snt, fps, t) == t * fps + TicksPerSecond

\* lines 178 and 196: next_time = start + sent / FPS, times FPS
NextTimeByFPS(st, snt, fps, t) == st * fps + snt * TicksPerSecond

PaceInit ==
    /\ EnumIdle
    /\ B64Idle
    /\ RecIdle
    /\ EncIdle
    /\ FRAME_FORMAT = "jpeg"
    /\ FPS \in 1..MaxFPS
    /\ QUEUE_MAXSIZE = 1
    /\ dir = <<>>
    /\ ClientStart
    /\ pace_pc = "begin"
    /\ now \in 0..1
    /\ start = 0
    /\ pace_sent = 0
    /\ stash_left \in 1..MaxPaceFrames
    /\ drain_left \in 0..MaxPaceFrames
    /\ send_times = <<>>

paceFixed == <<clientVars, enumVars, b64Vars, recVars, encVars>>

\* lines 165-166: start = perf_counter(); sent = 0
PaceBegin ==
    /\ pace_pc = "begin"
    /\ start' = now
    /\ pace_sent' = 0
    /\ pace_pc' = "stash_send"
    /\ UNCHANGED <<paceFixed, now, stash_left, drain_left, send_times>>

\* lines 175-180 and 193-198: the message goes out at the current clock,
\* the send takes d ticks, then delay = next_time - perf_counter() decides
\* whether the loop sleeps
PaceSendThen(sleeping, continuing) ==
    \E d \in 0..MaxLate :
        /\ send_times' = Append(send_times, now)
        /\ pace_sent' = pace_sent + 1
        /\ now' = now + d
        /\ pace_pc' = IF NextTimeByFPS(start, pace_sent', FPS, now') > now' * FPS
                      THEN sleeping ELSE continuing

\* lines 174-181: one iteration of the loop over the stash
PaceSendStash ==
    /\ pace_pc = "stash_send"
    /\ stash_left' = stash_left - 1
    /\ PaceSendThen("sleep_stash",
                    IF stash_left' > 0 THEN "stash_send" ELSE "drain_get")
    /\ UNCHANGED <<paceFixed, start, drain_left>>

\* lines 181 and 199: asyncio.sleep(delay) returns at the scheduled time or
\* up to MaxLate ticks after it
PaceWakeTo(continuing) ==
    \E t \in now..(now + TicksPerSecond + MaxLate) :
        /\ t * FPS >= NextTimeByFPS(start, pace_sent, FPS, now)
        /\ (t - MaxLate - 1) * FPS < NextTimeByFPS(start, pace_sent, FPS, now)
        /\ now' = t
        /\ pace_pc' = continuing

PaceWakeStash ==
    /\ pace_pc = "sleep_stash"
    /\ PaceWakeTo(IF stash_left > 0 THEN "stash_send" ELSE "drain_get")
    /\ UNCHANGED <<paceFixed, start, pace_sent, stash_left, drain_left, send_times>>

\* lines 189-191: q.get() returns a frame after d ticks, or the sentinel
PaceGet ==
    /\ pace_pc = "drain_get"
    /\ \E d \in 0..MaxLate : now' = now + d
    /\ pace_pc' = IF drain_left = 0 THEN "end" ELSE "drain_send"
    /\ UNCHANGED <<paceFixed, start, pace_sent, stash_left, drain_left, send_times>>

\* lines 192-198: the send of one iteration of the drain loop
PaceSendDrain ==
    /\ pace_pc = "drain_send"
    /\ drain_left' = drain_left - 1
    /\ PaceSendThen("sleep_drain", "drain_get")
    /\ UNCHANGED <<paceFixed, start, stash_left>>

PaceWakeDrain ==
    /\ pace_pc = "sleep_drain"
    /\ PaceWakeTo("drain_get")
    /\ UNCHANGED <<paceFixed, start, pace_sent, stash_left, drain_left, send_times>>

PaceNext ==
    \/ PaceBegin
    \/ PaceSendStash
    \/ PaceWakeStash
    \/ PaceGet
    \/ PaceSendDrain
    \/ PaceWakeDrain

PaceSpec == PaceInit /\ [][PaceNext]_vars

\* ------------------------------------------------------- the recorder
\* record.main: camera, optional preview window, capture loop, release.
MaxRecFPS == 2      \* recorder rates 1..MaxRecFPS
MaxDurHalves == 3   \* durations 0..MaxDurHalves half seconds
Keys == {"none", "q", "esc", "other"}

\* round(n / 2) as Python rounds: to the nearest integer, a tie to the even one
RoundHalves(n) ==
    IF n % 2 = 0 THEN n \div 2
    ELSE IF (n \div 2) % 2 = 0 THEN n \div 2 ELSE n \div 2 + 1

\* line 34: total_frames = int(round(FPS * DURATION_SEC))
TotalFrames(fps, halves) == RoundHalves(fps * halves)

RecInit ==
    /\ ClientIdle
    /\ EnumIdle
    /\ B64Idle
    /\ PaceIdle
    /\ EncIdle
    /\ rec_pc = "start"
    /\ rec_fps \in 1..MaxRecFPS
    /\ dur_halves \in 0..MaxDurHalves
    /\ SHOW_PREVIEW \in BOOLEAN
    /\ RecStart

recFixed == <<clientVars, enumVars, b64Vars, paceVars, encVars, rec_fps, dur_halves,
              SHOW_PREVIEW>>

\* line 41: next_time = start + (i / FPS), multiplied by FPS
RecNextTime(st, i, fps) == st * fps + i * TicksPerSecond

\* a failed read that is tried again at the same index
RetrySameIndex(i) == i

\* lines 44-46: continue takes the for loop to its next index
AfterFailedRead(i) == i + 1

\* a loop that goes on whatever key was pressed
NoStopKey(key) == FALSE

\* line 55: key in (ord('q'), 27)
IsStopKey(key) == key \in {"q", "esc"}

\* leaving main at the stop key instead of leaving the loop
ReturnTarget == "stopped"

\* line 57: break leads to the statements after the loop
BreakTarget == "after_loop"

\* line 40: for i in range(total_frames)
LoopOrDone(i) == IF i >= total_frames THEN "after_loop" ELSE "loop"

\* a preview that stays on although its window could not be created
KeepPreview(requested, window_ok) == requested

\* lines 27-32: show_preview = SHOW_PREVIEW, switched off when
\* cv2.namedWindow raises
PreviewAfterWindow(requested, window_ok) == requested /\ window_ok

\* lines 16-38: the camera opens; the preview window is created or not
RecOpen ==
    /\ rec_pc = "start"
    /\ cap' = "open"
    /\ \E window_ok \in BOOLEAN :
         /\ show_preview' = PreviewAfterWindow(SHOW_PREVIEW, window_ok)
         /\ window' = IF ~SHOW_PREVIEW THEN "none"
                      ELSE IF window_ok THEN "created" ELSE "failed"
    /\ total_frames' = TotalFrames(rec_fps, dur_halves)
    /\ \E late \in 0..MaxLate : rec_now' = rec_now + late
    /\ rec_start' = rec_now'
    /\ saved' = 0
    /\ rec_i' = 0
    /\ rec_pc' = IF total_frames' = 0 THEN "after_loop" ELSE "loop"
    /\ UNCHANGED <<recFixed, reads, releases, user_stopped, windows_destroyed,
                   read_log, written, shown, polls, last_key>>

\* lines 18-20: the camera does not open
RecOpenFail ==
    /\ rec_pc = "start"
    /\ rec_pc' = "raised_camera"
    /\ UNCHANGED <<recFixed, show_preview, total_frames, rec_i, saved, reads,
                   cap, releases, user_stopped, windows_destroyed, rec_now,
                   rec_start, read_log, written, shown, polls, last_key, window>>

\* lines 40-65: one iteration of the capture loop, up to its pacing sleep
RecIter ==
    /\ rec_pc = "loop"
    /\ reads' = reads + 1
    /\ \E ok \in BOOLEAN, key \in Keys, late \in 0..MaxLate :
         /\ read_log' = Append(read_log, [t |-> rec_now, ok |-> ok])
         /\ rec_now' = rec_now + late
         /\ IF ~ok
            THEN /\ rec_i' = AfterFailedRead(rec_i)
                 /\ rec_pc' = LoopOrDone(rec_i')
                 /\ UNCHANGED <<saved, written, shown, polls, last_key, user_stopped>>
            ELSE /\ written' = written + 1
                 /\ saved' = saved + 1
                 /\ IF show_preview
                    THEN /\ shown' = shown + 1
                         /\ polls' = polls + 1
                         /\ last_key' = key
                    ELSE UNCHANGED <<shown, polls, last_key>>
                 /\ IF show_preview /\ IsStopKey(key)
                    THEN /\ user_stopped' = TRUE
                         /\ rec_pc' = BreakTarget
                         /\ UNCHANGED rec_i
                    ELSE IF RecNextTime(rec_start, rec_i, rec_fps) > rec_now' * rec_fps
                    THEN /\ rec_pc' = "sleep"
                         /\ UNCHANGED <<rec_i, user_stopped>>
                    ELSE /\ rec_i' = rec_i + 1
                         /\ rec_pc' = LoopOrDone(rec_i')
                         /\ UNCHANGED user_stopped
    /\ UNCHANGED <<recFixed, show_preview, total_frames, cap, releases,
                   windows_destroyed, rec_start, window>>

\* line 65: time.sleep(delay) returns at next_time or up to MaxLate later
RecWake ==
    /\ rec_pc = "sleep"
    /\ \E t \in rec_now..(rec_start + rec_i * TicksPerSecond + MaxLate + 1) :
         /\ t * rec_fps >= RecNextTime(rec_start, rec_i, rec_fps)
         /\ (t - MaxLate - 1) * rec_fps < RecNextTime(rec_start, rec_i, rec_fps)
         /\ rec_now' = t
    /\ rec_i' = rec_i + 1
    /\ rec_pc' = LoopOrDone(rec_i')
    /\ UNCHANGED <<recFixed, show_preview, total_frames, saved, reads, cap,
                   releases, user_stopped, windows_destroyed, rec_start,
                   read_log, written, shown, polls, last_key, window>>

\* lines 67-73: release the camera, destroy the windows, report
RecFinish ==
    /\ rec_pc = "after_loop"
    /\ cap' = "released"
    /\ releases' = releases + 1
    /\ windows_destroyed' = show_preview
    /\ rec_pc' = "stopped"
    /\ UNCHANGED <<recFixed, show_preview, total_frames, rec_i, saved, reads,
                   user_stopped, rec_now, rec_start, read_log, written, shown,
                   polls, last_key, window>>

RecNext ==
    \/ RecOpen
    \/ RecOpenFail
    \/ RecIter
    \/ RecWake
    \/ RecFinish

RecSpec == RecInit /\ [][RecNext]_vars

\* every statement of main runs to its end: reads return, sleeps end
RecFairSpec ==
    /\ RecSpec
    /\ WF_vars(RecOpen \/ RecOpenFail)
    /\ WF_vars(RecIter)
    /\ WF_vars(RecWake)
    /\ WF_vars(RecFinish)

\* ------------------------------------- encoder_producer and its pool alone
\* encoder_producer with the jobs of its ThreadPoolExecutor made visible:
\* submission (run_in_executor), completion in a worker thread, resumption
\* of the awaiting task, put; the queue is emptied by a consumer.
MaxWorkers == 3     \* ENC_WORKERS 1..MaxWorkers
MaxEncFrames == 3   \* 1..MaxEncFrames paths
MaxEncQueue == 2    \* queue capacities 1..MaxEncQueue

EncInit ==
    /\ ClientIdle
    /\ EnumIdle
    /\ B64Idle
    /\ PaceIdle
    /\ RecIdle
    /\ ENC_WORKERS \in 1..MaxWorkers
    /\ enc_n \in 1..MaxEncFrames
    /\ enc_cap \in 1..MaxEncQueue
    /\ enc_pc = "submit"
    /\ EncStart

encFixed == <<clientVars, enumVars, b64Vars, paceVars, recVars, ENC_WORKERS, enc_n,
              enc_cap>>

\* the jobs the pool is running: the oldest ENC_WORKERS jobs in flight
Running ==
    { j \in in_flight :
        Cardinality({ k \in in_flight : k < j }) < ENC_WORKERS }

\* a producer that submits the next job without awaiting the one before
SubmitAhead(next, n) == IF next <= n THEN "submit" ELSE "await"

\* lines 67 and 69: b64 = await loop.run_in_executor(...): the task awaits
\* the job it has just submitted
AfterSubmit(next, n) == "await"

\* lines 66-69: loop.run_in_executor(pool, ...) hands one job to the pool
EncSubmit ==
    /\ enc_pc = "submit"
    /\ in_flight' = in_flight \cup {sub_i}
    /\ submitted' = Append(submitted, sub_i)
    /\ sub_i' = sub_i + 1
    /\ enc_pc' = AfterSubmit(sub_i', enc_n)
    /\ UNCHANGED <<encFixed, put_i, completed, job_ok, enc_q>>

\* a worker thread finishes b64_raw/b64_jpeg for one of the running jobs,
\* with a result or with an exception
EncJobDone ==
    /\ \E j \in Running, ok \in BOOLEAN :
         /\ in_flight' = in_flight \ {j}
         /\ completed' = Append(completed, j)
         /\ job_ok' = Append(job_ok, ok)
    /\ UNCHANGED <<encFixed, enc_pc, sub_i, put_i, submitted, enc_q>>

\* the outcome of job j, once completed
JobResult(j) == job_ok[CHOOSE k \in 1..Len(completed) : completed[k] = j]

\* lines 67-70: the await returns the result of the job, or raises its
\* exception and ends the task
EncResume ==
    /\ enc_pc = "await"
    /\ put_i \notin in_flight
    /\ \E k \in 1..Len(completed) : completed[k] = put_i
    /\ enc_pc' = IF JobResult(put_i) THEN "put" ELSE "aborted"
    /\ UNCHANGED <<encFixed, sub_i, put_i, in_flight, submitted, completed, job_ok,
                   enc_q>>

\* line 71: await q.put(...), then the next iteration of the for loop
EncPut ==
    /\ enc_pc = "put"
    /\ ~QueueFull(enc_q, enc_cap)
    /\ enc_q' = Append(enc_q, put_i)
    /\ put_i' = put_i + 1
    /\ enc_pc' = IF put_i' > enc_n THEN "put_sentinel"
                  ELSE IF sub_i <= enc_n THEN "submit" ELSE "await"
    /\ UNCHANGED <<encFixed, sub_i, in_flight, submitted, completed, job_ok>>

\* line 72: await q.put(None)
EncSentinel ==
    /\ enc_pc = "put_sentinel"
    /\ ~QueueFull(enc_q, enc_cap)
    /\ enc_q' = Append(enc_q, 0)
    /\ enc_pc' = "finished"
    /\ UNCHANGED <<encFixed, sub_i, put_i, in_flight, submitted, completed, job_ok>>

\* main, lines 160 and 189: the Sender takes the head of the queue
EncConsume ==
    /\ enc_q # <<>>
    /\ enc_q' = Tail(enc_q)
    /\ UNCHANGED <<encFixed, enc_pc, sub_i, put_i, in_flight, submitted, completed,
                   job_ok>>

EncNext ==
    \/ EncSubmit
    \/ EncJobDone
    \/ EncResume
    \/ EncPut
    \/ EncSentinel
    \/ EncConsume

EncSpec == EncInit /\ [][EncNext]_vars

\* ------------------------------------------------------------- properties
IsStream(m) == m.body.state = "stream"
IsEnd(m) == m.body.state = "end"
IsNone(x) == x = None
IsFrame(x) == x # None

StreamMsgs == SelectSeq(wire, IsStream)
EndMsgs == SelectSeq(wire, IsEnd)

IsPrefix(s, t) == Len(s) <= Len(t) /\ SubSeq(t, 1, Len(s)) = s

\* the Enumerator's ordered frame sequence for the directory of this run
Frames == list_timestamped_pngs(SomeOrdering(DOMAIN dir))
NumFrames == Len(Frames)
FailingFrames == { i \in 1..NumFrames : ~Encode(FRAME_FORMAT, dir[Frames[i]]).ok }
NoEncodeFailure == FailingFrames = {}
FrameTs == [i \in 1..NumFrames |-> Stem(Frames[i])]
StreamTs == [i \in 1..Len(StreamMsgs) |-> StreamMsgs[i].body.timestamp]
Terminated == main_pc \in {"exited", "returned", "raised_config",
                           "raised_connect", "raised_closed"}

\* C1: a run with N >= 1 frames, no encode failure and a connection that
\* stays open has, when main reaches "Done.", transmitted exactly N "stream"
\* messages followed by exactly one "end" message.
C1_StreamsThenOneEnd ==
    (main_pc \in {"done", "exited"} /\ NoEncodeFailure /\ NumFrames >= 1)
        => /\ Len(wire) = NumFrames + 1
           /\ \A i \in 1..NumFrames : IsStream(wire[i])
           /\ IsEnd(wire[NumFrames + 1])

\* C2: once the connection is established, a run with N >= 1 frames and no
\* encode failure eventually leaves the connection block, whatever the
\* remote endpoint does.
C2_MainTerminates ==
    (main_pc = "prefill" /\ NoEncodeFailure) ~> Terminated

\* C3: every "end" message on the wire carries the timestamp and the
\* frame_data of the "stream" message transmitted most recently before it.
C3_EndRepeatsLastStream ==
    \A i \in 1..Len(wire) :
        IsEnd(wire[i]) =>
            /\ \E j \in 1..(i - 1) : IsStream(wire[j])
            /\ \A j \in 1..(i - 1) :
                 (IsStream(wire[j]) /\ \A k \in (j + 1)..(i - 1) : ~IsStream(wire[k]))
                   => /\ wire[i].body.timestamp = wire[j].body.timestamp
                      /\ wire[i].body.frame_data = wire[j].body.frame_data

C3_Witness ==
    /\ Len(wire) >= 3
    /\ IsEnd(wire[Len(wire)])
    /\ wire[1].body.timestamp # wire[Len(wire)].body.timestamp

\* C4: once main waits on the Listener after the end message, the session
\* terminates with the connection closed; when the wait ended by cancelling
\* the Listener, exactly the handshake timeout had elapsed.
C4_HandshakeTerminates ==
    (main_pc = "wait" /\ EndMsgs # <<>>)
        ~> (/\ main_pc = "exited"
            /\ ws = "closed"
            /\ (listener_pc = "cancelled" => waited = HANDSHAKE_TIMEOUT))

C4_Witness ==
    /\ main_pc = "exited"
    /\ EndMsgs # <<>>
    /\ nsentRemote = 0
    /\ surfaced = <<>>
    /\ listener_pc = "cancelled"
    /\ waited = HANDSHAKE_TIMEOUT

\* C5: without encode failures, the frames put into the queue and the
\* timestamps of the "stream" messages transmitted so far are each a prefix
\* of the Enumerator's ordered frame sequence.
C5_StreamIsPrefixOfEnumeration ==
    NoEncodeFailure =>
        /\ IsPrefix(StreamTs, FrameTs)
        /\ LET fr == SelectSeq(puts, IsFrame)
           IN IsPrefix([i \in 1..Len(fr) |-> fr[i].name], Frames)

C5_Witness ==
    /\ NoEncodeFailure
    /\ Len(stash) >= 2
    /\ stash_i = Len(stash)
    /\ last_item # None
    /\ Len(StreamMsgs) = 3

\* C6: in every run encoder_producer puts the sentinel exactly once, as the
\* last thing it puts: never twice, never a frame after it, and the task
\* does not end without having put it.
C6_SentinelExactlyOnce ==
    /\ Len(SelectSeq(puts, IsNone)) <= 1
    /\ \A i \in 1..Len(puts) : puts[i] = None => i = Len(puts)
    /\ prod_pc \in {"finished", "aborted"} => Len(SelectSeq(puts, IsNone)) = 1

\* C7: once the session is established, and unless the remote endpoint
\* closes the connection, the number of "stream" messages transmitted
\* eventually equals the number of source frames minus the failing ones.
C7_SentCountIsSourceMinusFailing ==
    (main_pc = "prefill")
        ~> (\/ ws = "remote_closed"
            \/ Len(StreamMsgs) = NumFrames - Cardinality(FailingFrames))

\* C8: an encode failure never ends the Encoding Stage: the task is never
\* left aborted by the exception of one frame.
C8_FailureDoesNotAbortStage ==
    prod_pc # "aborted"

\* C9: when the Enumerator returns no frames (the encoding mode being
\* valid), main opens no connection, starts no task, transmits nothing and
\* ends by a normal return.
C9_EmptySourceNoSession ==
    (ValidFormat(FRAME_FORMAT) /\ NumFrames = 0) =>
        /\ main_pc \in {"start", "list", "returned"}
        /\ ws = "none"
        /\ listener_pc = "none"
        /\ prod_pc = "none"
        /\ wire = <<>>
        /\ puts = <<>>

C9_Witness ==
    /\ main_pc = "returned"
    /\ NumFrames = 0
    /\ DOMAIN dir # {}

\* C10: with an encoding mode that is neither "raw" nor "jpeg", main raises
\* before a connection is opened, a task created or a message transmitted,
\* whether or not the directory holds frames.
C10_InvalidModeFailsFirst ==
    ~(FRAME_FORMAT \in {"raw", "jpeg"}) =>
        /\ main_pc \in {"start", "raised_config"}
        /\ paths = <<>>
        /\ ws = "none"
        /\ listener_pc = "none"
        /\ prod_pc = "none"
        /\ wire = <<>>

C10_Witness ==
    /\ main_pc = "raised_config"
    /\ NumFrames >= 1

\* C11: when connection establishment fails, main ends by raising and no
\* partial session exists: no connection, no Listener task, no Encoding
\* Stage task, no queue, nothing put and nothing transmitted.
C11_ConnectFailureNoPartialSession ==
    /\ main_pc = "raised_connect" =>
        /\ ws = "none"
        /\ listener_pc = "none"
        /\ prod_pc = "none"
        /\ ~q_made
        /\ puts = <<>>
        /\ wire = <<>>
        /\ next_id = 0
    /\ (main_pc = "connect" /\ ws = "none") => (~q_made /\ listener_pc = "none")

C11_Witness ==
    /\ main_pc = "raised_connect"
    /\ NumFrames >= 2

\* frames that can be encoded and have not been transmitted yet
FramesUnsent == Len(StreamMsgs) < NumFrames - Cardinality(FailingFrames)

\* C12: when the remote endpoint closes the connection while frames are
\* still unsent, the Listener terminates, main terminates, nothing more is
\* transmitted on the connection and no second connection is established.
C12_RemoteCloseEndsSession ==
    /\ (ws = "remote_closed" /\ FramesUnsent)
          ~> (Terminated /\ listener_pc \in {"finished", "cancelled"})
    /\ [][(ws \in {"remote_closed", "closed"}) => (wire' = wire)]_vars
    /\ [][(ws' = "open") => (ws \in {"none", "open"})]_vars

\* C13: in a run that reaches the handshake wait, the Listener has finished
\* or has been cancelled before main leaves the wait, and the client closes
\* the connection only after that; a wait that ends with the Listener still
\* running ends by cancelling it.
C13_CloseAfterListenerEnded ==
    /\ [][(main_pc = "wait" /\ main_pc' # "wait")
            => (listener_pc' \in {"finished", "cancelled"})]_vars
    /\ [][(main_pc \in {"wait", "done"} /\ ws # "closed" /\ ws' = "closed")
            => (listener_pc \in {"finished", "cancelled"})]_vars

C13_Witness ==
    /\ main_pc = "exited"
    /\ ws = "closed"
    /\ listener_pc = "cancelled"
    /\ Len(surfaced) = 1

\* C17: the messages transmitted in a run carry pairwise distinct
\* datapt_ids; in particular the "end" message's id differs from the id of
\* the "stream" message that carried the same frame.
C17_FreshIdPerMessage ==
    \A i, j \in 1..Len(wire) :
        i # j => wire[i].body.datapt_id # wire[j].body.datapt_id

C17_Witness ==
    /\ Len(wire) >= 3
    /\ IsEnd(wire[Len(wire)])
    /\ IsStream(wire[Len(wire) - 1])
    /\ wire[Len(wire)].body.frame_data = wire[Len(wire) - 1].body.frame_data
    /\ wire[Len(wire)].body.timestamp = wire[Len(wire) - 1].body.timestamp

\* the Sender has taken the sentinel out of the queue
SentinelDequeued ==
    /\ \E i \in 1..Len(puts) : puts[i] = None
    /\ \A i \in 1..Len(q) : q[i] # None

\* C20: once the Sender has dequeued the sentinel it is never again at a
\* q.get() of the prefill loop or of the drain loop.
C20_NoGetAfterSentinel ==
    SentinelDequeued => main_pc \notin {"prefill", "drain"}

Range(f) == { f[i] : i \in DOMAIN f }

\* C15: whatever the entries and the order the filesystem returns them in,
\* the result of list_timestamped_pngs is sorted by the numeric value of
\* the stems.
C15_SortedByNumericStem ==
    enum_pc = "returned" =>
        \A i, j \in 1..Len(enum_result) :
            i < j => StemValue(enum_result[i]) <= StemValue(enum_result[j])

\* the pattern <seconds>.<fraction>.<ext>
MatchesSecondsFractionExt(name) == name.numeric /\ name.frac # NoFrac

\* C16: list_timestamped_pngs returns exactly the entries whose names have
\* the form <seconds>.<fraction>.<ext>, each once.
C16_ExactlyPatternEntries ==
    enum_pc = "returned" =>
        /\ Range(enum_result) = { n \in Range(listing) : MatchesSecondsFractionExt(n) }
        /\ Len(enum_result) = Cardinality(Range(enum_result))

\* C16 as amended: list_timestamped_pngs returns exactly the entries whose
\* names are digits, optionally a dot and digits, and the extension .png,
\* each once; every other entry is left out.
C16_ExactlyDigitsPngEntries ==
    enum_pc = "returned" =>
        /\ Range(enum_result) =
             { n \in Range(listing) : n.numeric /\ n.ext = "png" }
        /\ Len(enum_result) = Cardinality(Range(enum_result))

C16_Witness ==
    /\ enum_pc = "returned"
    /\ Len(listing) = 3
    /\ Len(enum_result) = 2
    /\ \E i \in 1..3 : ~listing[i].numeric
    /\ \E i \in 1..2 : enum_result[i].frac = NoFrac
    /\ \E i \in 1..2 : enum_result[i].frac # NoFrac

\* base64 decoding of a text (RFC 4648): the value of a character, then
\* four characters become three bytes, fewer when the group is padded; a
\* text whose length is not a multiple of four does not decode
B64Value(c) == (CHOOSE i \in 1..64 : B64Alphabet[i] = c) - 1

RECURSIVE b64decode(_)
b64decode(text) ==
    IF Len(text) = 0 THEN [ok |-> TRUE, val |-> <<>>]
    ELSE IF Len(text) < 4 THEN [ok |-> FALSE, val |-> <<>>]
    ELSE LET v1 == B64Value(text[1])
             v2 == B64Value(text[2])
             b1 == v1 * 4 + v2 \div 16
         IN IF text[3] = "="
            THEN [ok |-> Len(text) = 4 /\ text[4] = "=", val |-> <<b1>>]
            ELSE LET v3 == B64Value(text[3])
                     b2 == (v2 % 16) * 16 + v3 \div 4
                 IN IF text[4] = "="
                    THEN [ok |-> Len(text) = 4, val |-> <<b1, b2>>]
                    ELSE LET rest == b64decode(SubSeq(text, 5, Len(text)))
                         IN [ok |-> rest.ok,
                             val |-> <<b1, b2, (v3 % 4) * 64 + B64Value(text[4])>>
                                       \o rest.val]

\* C19: the text b64_raw returns for a readable file decodes back to
\* exactly the bytes of the file.
C19_RawRoundTrip ==
    b64_pc = "returned" =>
        /\ b64_out.ok
        /\ b64decode(b64_out.val).ok
        /\ b64decode(b64_out.val).val = b64_file.bytes

C19_Witness ==
    /\ b64_pc = "returned"
    /\ Len(b64_file.bytes) = 2
    /\ b64_file.bytes[1] = 255
    /\ b64_out.val[4] = "="

Sleeping == pace_pc \in {"sleep_stash", "sleep_drain"}

\* C14: in both loops, message number k is not transmitted before
\* start + (k - 1)/FPS; the Sender sleeps after a send only when the clock
\* is before start + sent/FPS, and a sleep ends no earlier than that time;
\* start is taken once and never moved.
C14_DriftCorrectedPacing ==
    /\ [](\A k \in 1..Len(send_times) :
            send_times[k] * FPS >= start * FPS + (k - 1) * TicksPerSecond)
    /\ [](Sleeping => now * FPS < start * FPS + pace_sent * TicksPerSecond)
    /\ [][(Sleeping /\ ~Sleeping')
            => (now' * FPS >= start * FPS + pace_sent * TicksPerSecond)]_vars
    /\ [][(pace_pc \notin {"idle", "begin"}) => (start' = start)]_vars

\* a frame sent late (after its scheduled time) in the drain loop, followed
\* by a later frame, with both loops used
C14_Witness ==
    /\ pace_pc = "end"
    /\ Len(send_times) >= 3
    /\ \E k \in 2..(Len(send_times) - 1) :
         send_times[k] * FPS > start * FPS + (k - 1) * TicksPerSecond
    /\ send_times[Len(send_times)] * FPS
         < send_times[Len(send_times) - 1] * FPS + TicksPerSecond

\* the recorder's state machine
RecState(pc) ==
    IF pc \in {"idle", "start"} THEN "Idle"
    ELSE IF pc \in {"loop", "sleep", "after_loop"} THEN "Capturing"
    ELSE IF pc = "stopped" THEN "Stopped" ELSE "Failed"
RecRank(st) ==
    IF st = "Idle" THEN 0 ELSE IF st = "Capturing" THEN 1 ELSE 2

\* C18: once the camera is open, the end of the capture loop (all
\* iterations done or stop key) is followed at once by the one release of
\* the camera; the camera is released at most once, is open exactly while
\* Capturing, nothing is read after the release and the recorder only moves
\* Idle -> Capturing -> Stopped.
C18_ReleaseOnceAfterLoop ==
    /\ [](releases <= 1)
    /\ [](RecState(rec_pc) = "Capturing" <=> cap = "open")
    /\ [](RecState(rec_pc) = "Stopped" <=> (cap = "released" /\ releases = 1))
    /\ [][(rec_pc = "after_loop")
            => (cap' = "released" /\ releases' = 1 /\ rec_pc' = "stopped")]_vars
    /\ [][(cap = "released") => (reads' = reads)]_vars
    /\ [][RecRank(RecState(rec_pc')) >= RecRank(RecState(rec_pc))]_vars

C18_Witness ==
    /\ rec_pc = "stopped"
    /\ user_stopped
    /\ saved >= 2
    /\ reads < total_frames
    /\ releases = 1

\* C21: at most one "end" message is transmitted in a run, and it is the
\* last message on the connection: once an "end" message is on the wire
\* nothing further is transmitted.
C21_EndIsSingleAndLast ==
    /\ [](Len(EndMsgs) <= 1)
    /\ [](\A k \in 1..Len(wire) : IsEnd(wire[k]) => k = Len(wire))
    /\ [][(EndMsgs # <<>>) => (wire' = wire)]_vars

C21_Witness ==
    /\ main_pc = "exited"
    /\ Len(StreamMsgs) >= 3
    /\ Len(EndMsgs) = 1
    /\ surfaced # <<>>

\* the encoder_producer task is suspended in a q.put()
PutPending == prod_pc \in {"put", "put_sentinel"}

\* C22: the queue never holds more than QUEUE_MAXSIZE items; an item enters
\* it only at the tail and only while it is not full, so a put on a full
\* queue stays pending until the Sender has dequeued; an item leaves it only
\* at the head and goes to the Sender (the stash, last_item, or the
\* sentinel check); the items put are, in order, the items already dequeued
\* followed by the queue contents, so none is lost or overwritten.
C22_QueueBoundedNoLoss ==
    /\ [](Len(q) <= QUEUE_MAXSIZE)
    /\ [](Len(q) <= Len(puts) /\ SubSeq(puts, Len(puts) - Len(q) + 1, Len(puts)) = q)
    /\ [][(Len(q') > Len(q))
            => (/\ Len(q) < QUEUE_MAXSIZE
                /\ PutPending
                /\ q' = Append(q, IF prod_pc = "put" THEN prod_item ELSE None)
                /\ puts' = Append(puts, q'[Len(q')]))]_vars
    /\ [][(PutPending /\ Len(q) = QUEUE_MAXSIZE)
            => (prod_pc' \in {prod_pc, "cancelled"} /\ puts' = puts)]_vars
    /\ [][(Len(q') < Len(q))
            => (/\ q' = Tail(q)
                /\ puts' = puts
                /\ main_pc \in {"prefill", "drain"}
                /\ \/ Head(q) = None
                   \/ stash' = Append(stash, Head(q))
                   \/ last_item' = Head(q))]_vars
    /\ [][(q = <<>> /\ main_pc \in {"prefill", "drain"})
            => (main_pc' = main_pc /\ UNCHANGED senderVars)]_vars

C22_Witness ==
    /\ QUEUE_MAXSIZE = 2
    /\ Len(q) = QUEUE_MAXSIZE
    /\ PutPending
    /\ main_pc = "drain"
    /\ sent >= 1

\* a step that writes to the connection, reads from it, or is taken by the
\* encoder_producer task
ConnWrite == wire' # wire
ConnRead == Len(inbox') < Len(inbox)
ProducerStep ==
    /\ prod_pc \in {"encode", "put", "put_sentinel"}
    /\ prodVars' # prodVars
    /\ prod_pc' # "cancelled"

\* C23: every write to the connection is a step of the Sender (main at one
\* of its three send_item calls) that leaves the Listener and the Encoding
\* Stage where they are and reads nothing; every read from the connection
\* is a step of the running Listener that leaves the Sender and the
\* Encoding Stage where they are and writes nothing; a step of the Encoding
\* Stage neither writes nor reads nor changes the connection.
C23_SenderWritesListenerReads ==
    /\ [][ConnWrite
            => (/\ main_pc \in {"send_stash", "drain", "end"}
                /\ ws = "open"
                /\ next_id' = next_id + 1
                /\ ~ConnRead
                /\ UNCHANGED <<inbox, surfaced, listener_pc, prodVars>>)]_vars
    /\ [][ConnRead
            => (/\ listener_pc = "running"
                /\ inbox' = Tail(inbox)
                /\ surfaced' = Append(surfaced, Surface(Head(inbox)))
                /\ UNCHANGED <<main_pc, senderVars, q, prodVars, wire, next_id>>)]_vars
    /\ [][ProducerStep => UNCHANGED <<ws, wire, inbox, surfaced, next_id>>]_vars

C23_Witness ==
    /\ main_pc = "wait"
    /\ prod_pc = "finished"
    /\ Len(wire) >= 2
    /\ Len(surfaced) >= 1
    /\ ws = "open"

\* main is between establishing the connection and the end of the handshake
BeforeHandshakeEnd == main_pc \in {"prefill", "send_stash", "drain", "end", "wait"}

\* C24: the Listener exists before anything is transmitted; as long as the
\* connection is open and the handshake has not ended the Listener is
\* running, so every inbound message that arrives then arrives at a running
\* Listener; the Listener stops running only when the connection has been
\* closed or when the handshake timeout cancels it.
C24_ListenerCoversConnection ==
    /\ [](wire # <<>> => listener_pc # "none")
    /\ []((ws = "open" /\ BeforeHandshakeEnd) => listener_pc = "running")
    /\ [][(Len(inbox') > Len(inbox) /\ BeforeHandshakeEnd)
            => (listener_pc = "running" /\ listener_pc' = "running")]_vars
    /\ [][(listener_pc = "running" /\ listener_pc' # "running")
            => \/ ws = "remote_closed"
               \/ (main_pc = "wait" /\ waited >= HANDSHAKE_TIMEOUT
                      /\ listener_pc' = "cancelled")]_vars

C24_Witness ==
    /\ main_pc = "drain"
    /\ wire # <<>>
    /\ inbox # <<>>
    /\ listener_pc = "running"
    /\ ws = "open"

\* inbound message n has arrived and has not been read / has been printed
Unread(n) == \E i \in 1..Len(inbox) : inbox[i].n = n
Surfaced(n) == \E j \in 1..Len(surfaced) : surfaced[j].body = n

\* what the Listener prints is, in order and once each, the messages that
\* arrived; the messages not yet read follow in arrival order; the print
\* of a message is the step that reads it
SurfacedOnceInOrder ==
    /\ [](\A j \in 1..Len(surfaced) : surfaced[j].body = j)
    /\ [](\A i \in 1..Len(inbox) : inbox[i].n = Len(surfaced) + i)
    /\ [][(surfaced' # surfaced)
            => (ConnRead /\ surfaced' = Append(surfaced, Surface(Head(inbox))))]_vars

\* reading a message, decodable or not, leaves the Listener running and
\* changes nothing the Sender reads or writes
ListenerKeepsGoing ==
    [][ConnRead
        => (/\ listener_pc' = "running"
            /\ UNCHANGED <<main_pc, senderVars, q, ws, wire, next_id, waited>>)]_vars

ClosedDuringHandshake ==
    /\ main_pc = "wait"
    /\ ws = "remote_closed"
    /\ listener_pc = "running"
    /\ waited < HANDSHAKE_TIMEOUT

\* C26: when the remote endpoint closes the connection after the end
\* message and before the handshake timeout has elapsed, the Listener ends
\* by itself, main's wait returns and main reaches "Done."; on the way the
\* timeout does not fire and the Listener is not cancelled.
C26_RemoteCloseEndsHandshake ==
    /\ ClosedDuringHandshake ~> (main_pc = "done" /\ listener_pc = "finished")
    /\ [][ClosedDuringHandshake
            => (listener_pc' # "cancelled" /\ waited' = waited
                  /\ main_pc' = "wait")]_vars
    /\ [][(main_pc = "wait" /\ listener_pc = "finished")
            => (main_pc' = "done" /\ listener_pc' = "finished")]_vars

C26_Witness ==
    /\ main_pc = "exited"
    /\ listener_pc = "finished"
    /\ EndMsgs # <<>>
    /\ waited \in 1..(HANDSHAKE_TIMEOUT - 1)
    /\ Len(surfaced) >= 1

\* main has left the session: asyncio.run, not the session, then cancels
\* the tasks still pending
LeftSession == main_pc \in {"exited", "raised_closed", "raised_connect",
                            "raised_config", "returned"}

\* C27: while main is in the session the only task that becomes cancelled
\* is the Listener, and only by the step of the handshake wait taken once
\* the timeout has elapsed, after the Sender has dequeued the sentinel and
\* passed the end-message step; the encoder_producer task never becomes
\* cancelled in the session, and the Listener never while main is still in
\* a sending loop. (After main has left, asyncio.run cancels what is left.)
C27_OnlyListenerCancelledAfterTimeout ==
    /\ [][(listener_pc # "cancelled" /\ listener_pc' = "cancelled" /\ ~LeftSession')
            => (/\ main_pc = "wait"
                /\ waited >= HANDSHAKE_TIMEOUT
                /\ SentinelDequeued
                /\ main_pc' = "done"
                /\ prod_pc' = prod_pc)]_vars
    /\ [][(prod_pc # "cancelled" /\ prod_pc' = "cancelled") => LeftSession']_vars
    /\ []((main_pc \in {"prefill", "send_stash", "drain", "end"})
            => (listener_pc # "cancelled" /\ prod_pc # "cancelled"))

C27_Witness ==
    /\ main_pc = "done"
    /\ listener_pc = "cancelled"
    /\ prod_pc = "finished"
    /\ waited = HANDSHAKE_TIMEOUT
    /\ Len(StreamMsgs) >= 2
    /\ Len(EndMsgs) = 1

\* reads of the camera so far, by outcome
FailedReads == Cardinality({ k \in 1..Len(read_log) : ~read_log[k].ok })
SuccessfulReads == Cardinality({ k \in 1..Len(read_log) : read_log[k].ok })
\* the step is a cap.read() that failed
FailedReadStep == Len(read_log') > Len(read_log) /\ ~read_log'[Len(read_log')].ok

\* C28: a failed read does not end the run and writes nothing, but uses up
\* its loop index; the loop makes at most total_frames =
\* round(FPS * DURATION_SEC) reads and always comes to its end; saved is
\* always the number of successful reads, and saved plus the failed reads
\* never exceeds total_frames.
C28_FailedReadConsumesIndex ==
    /\ [](rec_pc \in {"loop", "sleep", "after_loop", "stopped"}
            => total_frames = TotalFrames(rec_fps, dur_halves))
    /\ [](Len(read_log) <= total_frames /\ reads = Len(read_log))
    /\ [](saved = SuccessfulReads /\ written = saved)
    /\ [](saved + FailedReads <= total_frames)
    /\ [][FailedReadStep
            => (/\ rec_i' = rec_i + 1
                /\ saved' = saved
                /\ written' = written
                /\ rec_pc' \in {"loop", "after_loop"})]_vars
    /\ (rec_pc \in {"loop", "sleep"}) ~> (rec_pc = "stopped")

C28_Witness ==
    /\ rec_pc = "stopped"
    /\ total_frames = 3
    /\ Len(read_log) = 3
    /\ ~read_log[2].ok
    /\ read_log[3].ok
    /\ saved = 2

\* C29: the recorder follows the Sender's drift-corrected schedule: once k
\* iterations (k >= 1) have completed, the next read does not begin before
\* start + k/FPS, whether the k-th read succeeded or failed, and the
\* recorder does not sleep when it is already past that time.
C29_RecorderPacedLikeSender ==
    /\ \A k \in 1..(Len(read_log) - 1) :
         read_log[k + 1].t * rec_fps >= rec_start * rec_fps + k * TicksPerSecond
    /\ rec_pc = "sleep"
         => rec_now * rec_fps < rec_start * rec_fps + (rec_i + 1) * TicksPerSecond

\* the step polls the keyboard (cv2.waitKey)
PollStep == polls' > polls
LoopEnded == rec_pc \in {"after_loop", "stopped"}

\* C30: the keyboard is polled only while the preview is active, after the
\* frame of that iteration has been written and counted; a poll that
\* returns q or Esc ends the loop at once and the run ends as a normal run:
\* nothing is read or written afterwards and no error is raised. With the
\* preview inactive the loop ends only after all total_frames iterations.
C30_StopKeyEndsCapture ==
    /\ [][PollStep
            => (/\ show_preview
                /\ polls' = polls + 1
                /\ read_log'[Len(read_log')].ok
                /\ written' = written + 1
                /\ saved' = saved + 1)]_vars
    /\ [][(PollStep /\ last_key' \in {"q", "esc"})
            => (user_stopped' /\ rec_pc' = "after_loop")]_vars
    /\ [][user_stopped
            => (/\ read_log' = read_log
                /\ written' = written
                /\ saved' = saved
                /\ polls' = polls
                /\ rec_pc' = "stopped")]_vars
    /\ [](user_stopped
            => (LoopEnded /\ show_preview /\ last_key \in {"q", "esc"}
                  /\ saved = SuccessfulReads /\ written = saved))
    /\ []((LoopEnded /\ ~user_stopped) => Len(read_log) = total_frames)
    /\ []((LoopEnded /\ ~show_preview)
            => (~user_stopped /\ polls = 0 /\ Len(read_log) = total_frames))

C30_Witness ==
    /\ rec_pc = "stopped"
    /\ user_stopped
    /\ last_key = "esc"
    /\ total_frames = 3
    /\ Len(read_log) = 2
    /\ ~read_log[1].ok
    /\ saved = 1

\* the camera is open or was: main is past the creation of the window
PastWindow == rec_pc \in {"loop", "sleep", "after_loop", "stopped"}
\* preview was requested and its window could not be created
WindowFailed == PastWindow /\ SHOW_PREVIEW /\ window = "failed"

\* C31: when preview is requested and the window cannot be created, main
\* goes on to the capture loop instead of failing; preview stays off for
\* the rest of the run (show_preview is never changed after the window
\* step), no frame is shown, the keyboard is never polled, the loop ends
\* only after all total_frames iterations, the windows are not destroyed
\* and the run ends as a normal run.
C31_WindowFailureFallsBackToHeadless ==
    /\ [][PastWindow => (show_preview' = show_preview)]_vars
    /\ [](WindowFailed
            => (/\ ~show_preview
                /\ shown = 0 /\ polls = 0
                /\ ~user_stopped /\ ~windows_destroyed))
    /\ []((WindowFailed /\ LoopEnded) => Len(read_log) = total_frames)
    /\ [][(rec_pc = "start" /\ rec_pc' = "raised_camera")
            => (cap' = "none" /\ show_preview' = FALSE)]_vars
    /\ (WindowFailed /\ rec_pc # "stopped")
          ~> (WindowFailed /\ rec_pc = "stopped" /\ Len(read_log) = total_frames)

C31_Witness ==
    /\ WindowFailed
    /\ rec_pc = "stopped"
    /\ total_frames = 3
    /\ saved = 3
    /\ shown = 0
    /\ ~windows_destroyed

\* C32: encoder_producer hands a job to the pool only when no job is in
\* flight and the frame of every earlier job has been put into the queue;
\* so at most one job is in flight at any moment, for every ENC_WORKERS,
\* and the jobs complete in the order in which they were submitted.
C32_OneEncodeJobAtATime ==
    /\ [](Cardinality(in_flight) <= 1)
    /\ [](completed = SubSeq(submitted, 1, Len(completed)))
    /\ [](\A k \in 1..Len(submitted) : submitted[k] = k)
    /\ [][(Len(submitted') > Len(submitted))
            => (/\ in_flight = {}
                /\ completed = submitted
                /\ put_i = Len(submitted) + 1)]_vars

C32_Witness ==
    /\ ENC_WORKERS >= 2
    /\ enc_pc = "finished"
    /\ enc_n = 3
    /\ Len(completed) = 3
    /\ enc_q = <<>>

\* C33: nothing is transmitted while main is in its prefill loop; the loop
\* ends when the stash holds prefill_target = max(1, int(FPS * 0.5)) frames
\* or when the sentinel has been dequeued, whichever comes first; the stash
\* never holds more than prefill_target frames; the pacing reference start
\* is taken when the loop has ended and before the first transmission.
C33_NoSendBeforePrefillEnds ==
    /\ [](q_made => prefill_target = (IF FPS \div 2 > 1 THEN FPS \div 2 ELSE 1))
    /\ [](Len(stash) <= prefill_target)
    /\ [](main_pc = "prefill" => (wire = <<>> /\ ~start_taken))
    /\ [](wire # <<>> => start_taken)
    /\ [](start_taken => (Len(stash) = prefill_target \/ SentinelDequeued))
    /\ [][(wire' # wire) => (start_taken /\ main_pc # "prefill")]_vars
    /\ [][(main_pc = "prefill" /\ main_pc' # "prefill")
            => (start_taken'
                  /\ (Len(stash') = prefill_target \/ SentinelDequeued'))]_vars

C33_Witness ==
    /\ FPS = 4
    /\ prefill_target = 2
    /\ Len(stash) = 2
    /\ main_pc = "drain"
    /\ Len(wire) = 3

\* frames encoded so far (put into the queue or held by encoder_producer
\* for its put) that have not been transmitted
FramesPut == Cardinality({ i \in 1..Len(puts) : puts[i] # None })
EncodedUnsent ==
    FramesPut + (IF prod_item # None THEN 1 ELSE 0) - Len(StreamMsgs)
BackpressureBound == QUEUE_MAXSIZE + prefill_target + 1

\* C34: at every moment of a session the number of frames that have been
\* encoded and not yet transmitted is at most
\* QUEUE_MAXSIZE + prefill_target + 1.
C34_BackpressureBound ==
    q_made => EncodedUnsent <= BackpressureBound

C34_Witness ==
    /\ main_pc = "send_stash"
    /\ wire = <<>>
    /\ EncodedUnsent = BackpressureBound
    /\ NumFrames > BackpressureBound
    /\ prod_pc = "put"

====
